---- MODULE Spec2Model ----
(***************************************************************************)
(* chttp: ClientBuilder / Client (src/src/client.rs) and the request       *)
(* pipeline of Client::send_async_impl, together with the Agent that       *)
(* executes submitted requests (crate::internal::agent, specified in       *)
(* spec.md 4.1-4.4 and 5).                                                 *)
(***************************************************************************)
EXTENDS Integers, Sequences, FiniteSets, TLC

VARIABLES builder, clients, agents, lastBuild, calls

vars == <<builder, clients, agents, lastBuild, calls>>

(***************************************************************************)
(* Bounds                                                                  *)
(***************************************************************************)
\* middleware instances that exist: 1..MaxMiddleware
MaxMiddleware == 2
\* Clients built in a run of the builder specification
MaxClients == 2
\* calls made in a run of the pipeline specification
MaxSends == 1
\* calls made in a run of the agent specification
MaxCalls == 2
\* cap of an Agent's transport handle pool
MaxHandles == 1

(***************************************************************************)
(* Values                                                                  *)
(***************************************************************************)
Reverse(s) == [i \in 1..Len(s) |-> s[Len(s) + 1 - i]]

Range(s) == {s[i] : i \in 1..Len(s)}

MW == 1..MaxMiddleware

\* an Option<T> is a set with at most one element
None == {}

Some(x) == {x}

Unwrap(o) == CHOOSE x \in o : TRUE

UnsetTimeout == "unset"

\* Options::default(): every field unset
OptionsDefault == [timeout |-> UnsetTimeout, redirect_policy |-> "None"]

\* Options a builder is given with ClientBuilder::options
ClientOptionChoices ==
    {OptionsDefault, [timeout |-> "60s", redirect_policy |-> "Limit"]}

\* Options a caller attaches to a request with .extension(..)
RequestOptionChoices ==
    {[timeout |-> UnsetTimeout, redirect_policy |-> "Follow"],
     [timeout |-> "5s", redirect_policy |-> "None"]}

\* Options a middleware attaches in filter_request
MiddlewareOptions == [timeout |-> "1s", redirect_policy |-> "None"]

GoodUri == "http://example.org/"

RewrittenUri == "http://mirror.example.org/"

BadUri == "not a uri"

USER_AGENT == "curl/x chttp/y"

\* the sequences of distinct middleware instances
MiddlewareLists ==
    {s \in UNION {[1..n -> MW] : n \in 0..MaxMiddleware} :
        \A i, j \in 1..Len(s) : i # j => s[i] # s[j]}

(***************************************************************************)
(* Middleware: filter_request / filter_response of three implementations.  *)
(* Every filter leaves its marker on what it filters.                      *)
(***************************************************************************)
MiddlewareKind(m) ==
    CASE m % 3 = 1 -> "rewrite"
      [] m % 3 = 2 -> "attach"
      [] OTHER -> "pass"

filter_request(m, request) ==
    LET marked == [request EXCEPT !.log = Append(@, m)]
    IN CASE MiddlewareKind(m) = "rewrite" ->
              [marked EXCEPT !.uri = RewrittenUri, !.options = None]
         [] MiddlewareKind(m) = "attach" ->
              [marked EXCEPT !.options = Some(MiddlewareOptions)]
         [] OTHER -> marked

filter_response(m, response) ==
    [response EXCEPT !.log = Append(@, [mw |-> m, uri |-> response.uri])]

(***************************************************************************)
(* ClientBuilder                                                           *)
(***************************************************************************)
ClientBuilderNew == [default_options |-> OptionsDefault, middleware |-> <<>>]

NoBuild == [result |-> "none", via |-> "none", before |-> ClientBuilderNew, count |-> 0]

\* agent::create(): a new Agent with its own thread, or an InitError
AgentCreate(ok) ==
    IF ok THEN [ok |-> TRUE, handle |-> agents + 1]
          ELSE [ok |-> FALSE, handle |-> 0]

BuildAgentShared(ok) ==
    IF ok
    THEN [ok |-> TRUE,
          handle |-> IF clients = <<>> THEN agents + 1 ELSE clients[1].agent]
    ELSE [ok |-> FALSE, handle |-> 0]

\* let agent = agent::create()?;
BuildAgent(ok) == AgentCreate(ok)

\* Ok(Client { agent, default_options: clone, middleware: drained })
BuildClient(b, agent) ==
    [agent |-> agent,
     default_options |-> b.default_options,
     middleware |-> b.middleware]

DrainKeeps(b) == b

\* self.middleware.drain(..)
Drain(b) == [b EXCEPT !.middleware = <<>>]

\* ClientBuilder::options
Options(o) ==
    /\ builder' = [builder EXCEPT !.default_options = o]
    /\ lastBuild' = NoBuild
    /\ UNCHANGED <<clients, agents, calls>>

\* ClientBuilder::with_middleware: the instance is moved into the builder
WithMiddleware(m) ==
    /\ m \notin Range(builder.middleware)
    /\ \A i \in 1..Len(clients) : m \notin Range(clients[i].middleware)
    /\ builder' = [builder EXCEPT !.middleware = Append(@, m)]
    /\ lastBuild' = NoBuild
    /\ UNCHANGED <<clients, agents, calls>>

\* ClientBuilder::build
Build(ok) ==
    LET created == BuildAgent(ok)
    IN /\ lastBuild' = [result |-> IF created.ok THEN "ok" ELSE "err",
                        via |-> "builder",
                        before |-> builder,
                        count |-> Len(clients)]
       /\ IF created.ok
          THEN /\ clients' = Append(clients, BuildClient(builder, created.handle))
               /\ builder' = Drain(builder)
               /\ agents' = agents + 1
          ELSE UNCHANGED <<clients, builder, agents>>
       /\ UNCHANGED calls

\* Client::new: ClientBuilder::default().build()
ClientNew(ok) ==
    LET created == BuildAgent(ok)
    IN /\ lastBuild' = [result |-> IF created.ok THEN "ok" ELSE "err",
                        via |-> "new",
                        before |-> ClientBuilderNew,
                        count |-> Len(clients)]
       /\ IF created.ok
          THEN /\ clients' = Append(clients,
                                    BuildClient(ClientBuilderNew, created.handle))
               /\ agents' = agents + 1
          ELSE UNCHANGED <<clients, agents>>
       /\ UNCHANGED <<builder, calls>>

InitBuilder ==
    /\ builder = ClientBuilderNew
    /\ clients = <<>>
    /\ agents = 0
    /\ lastBuild = NoBuild
    /\ calls = <<>>

NextBuilder ==
    \/ \E o \in ClientOptionChoices : Options(o)
    \/ \E m \in MW : WithMiddleware(m)
    \/ \E ok \in BOOLEAN : (ok => Len(clients) < MaxClients) /\ Build(ok)
    \/ \E ok \in BOOLEAN : (ok => Len(clients) < MaxClients) /\ ClientNew(ok)

SpecBuilder == InitBuilder /\ [][NextBuilder]_vars

(***************************************************************************)
(* Client::send_async_impl, the part that runs when send / send_async is   *)
(* called                                                                  *)
(***************************************************************************)
NoHeader == ""

NewRequest(uri, options, ua) ==
    [uri |-> uri, options |-> options, user_agent |-> ua, log |-> <<>>]

\* the requests a caller passes to send / send_async
Requests ==
    {NewRequest(GoodUri, o, ua) :
        o \in {None} \cup {Some(x) : x \in RequestOptionChoices},
        ua \in {NoHeader}}
    \cup {NewRequest(GoodUri, None, "custom-agent")}

\* the requests a caller passes to send_async in the pipeline specification
AsyncRequests ==
    {NewRequest(GoodUri, None, NoHeader),
     NewRequest(GoodUri, Some([timeout |-> "5s", redirect_policy |-> "None"]),
                NoHeader)}

\* http::Uri: HttpTryFrom<U>
WellFormed(uri) == uri # BadUri

\* http::Request::get(uri).body(Body::default())
VerbRequest(uri) == NewRequest(uri, None, NoHeader)

\* headers_mut().entry(USER_AGENT).or_insert(..)
WithUserAgent(request) ==
    IF request.user_agent = NoHeader
    THEN [request EXCEPT !.user_agent = USER_AGENT]
    ELSE request

RequestFilterOrderRegistration(middleware) == middleware

\* for middleware in middleware.iter().rev()
RequestFilterOrder(middleware) == Reverse(middleware)

RECURSIVE ApplyRequestFilters(_, _)
\* request = middleware.filter_request(request), in the order given
ApplyRequestFilters(request, order) ==
    IF order = <<>>
    THEN request
    ELSE ApplyRequestFilters(filter_request(Head(order), request), Tail(order))

PrepareRequestLateUri(middleware, request) ==
    LET filtered == ApplyRequestFilters(WithUserAgent(request),
                                        RequestFilterOrder(middleware))
    IN [uri |-> filtered.uri, filtered |-> filtered]

\* the user agent, let uri = request.uri().clone(), then the request filters
PrepareRequest(middleware, request) ==
    LET request0 == WithUserAgent(request)
    IN [uri |-> request0.uri,
        filtered |-> ApplyRequestFilters(request0, RequestFilterOrder(middleware))]

ResolveOptionsDefaultOnly(extracted, default_options) == default_options

ResolveOptionsPerField(extracted, default_options) ==
    IF extracted = None
    THEN default_options
    ELSE [f \in DOMAIN default_options |->
            IF f = "timeout" /\ Unwrap(extracted)[f] = UnsetTimeout
            THEN default_options[f]
            ELSE Unwrap(extracted)[f]]

\* options.as_ref().unwrap_or(&self.default_options)
ResolveOptions(extracted, default_options) ==
    IF extracted # None THEN Unwrap(extracted) ELSE default_options

BeginExecuteUnconditional(created, accepted) == accepted

BeginExecuteDeferred(created, accepted) == FALSE

\* request::create(..).and_then(|..| self.agent.begin_execute(request)..):
\* whether the request is with the Agent when send_async_impl returns
BeginExecute(created, accepted) == created /\ accepted

NoResponse == [status |-> "none", uri |-> None, log |-> <<>>]

\* the call as send_async_impl leaves it when it returns the future
SendAsyncImpl(c, kind, request, created, accepted) ==
    LET prepared == PrepareRequest(clients[c].middleware, request)
        extracted == prepared.filtered.options
        submitted == BeginExecute(created, accepted)
    IN [client |-> c,
        kind |-> kind,
        request |-> request,
        uri |-> Some(prepared.uri),
        filtered |-> prepared.filtered,
        extracted |-> extracted,
        options |-> Some(ResolveOptions(extracted, clients[c].default_options)),
        created |-> created,
        accepted |-> accepted,
        submitted |-> submitted,
        state |-> IF submitted THEN "Queued" ELSE "NotSubmitted",
        resolved |-> 0,
        polled |-> FALSE,
        future |-> "pending",
        result |-> "none",
        results |-> 0,
        response |-> NoResponse]

\* a verb method whose http::Request::get(uri).body(..)? fails
InvalidRequest(c, kind, uri) ==
    [client |-> c,
     kind |-> kind,
     request |-> VerbRequest(uri),
     uri |-> None,
     filtered |-> VerbRequest(uri),
     extracted |-> None,
     options |-> None,
     created |-> FALSE,
     accepted |-> FALSE,
     submitted |-> FALSE,
     state |-> "NotSubmitted",
     resolved |-> 0,
     polled |-> FALSE,
     future |-> "ready",
     result |-> "Error",
     results |-> 1,
     response |-> NoResponse]

\* Client::get (head, post, put and delete are the same code)
Get(c, uri, created, accepted) ==
    /\ calls' = Append(calls,
                       IF WellFormed(uri)
                       THEN SendAsyncImpl(c, "get", VerbRequest(uri), created, accepted)
                       ELSE InvalidRequest(c, "get", uri))
    /\ UNCHANGED <<builder, clients, agents, lastBuild>>

\* Client::send: block_on(self.send_async_impl(request))
Send(c, request, created, accepted) ==
    /\ calls' = Append(calls, SendAsyncImpl(c, "send", request, created, accepted))
    /\ UNCHANGED <<builder, clients, agents, lastBuild>>

\* Client::send_async
SendAsync(c, request, created, accepted) ==
    /\ calls' = Append(calls,
                       SendAsyncImpl(c, "send_async", request, created, accepted))
    /\ UNCHANGED <<builder, clients, agents, lastBuild>>

(***************************************************************************)
(* The Agent (spec.md 4.2-4.4): one worker per Client that binds queued    *)
(* requests to pooled transport handles and resolves each request's        *)
(* completion sink.                                                        *)
(***************************************************************************)
TerminalStates == {"Completed", "Failed", "TimedOut", "Cancelled"}

BoundStates == {"Bound", "Connecting", "Transferring"}

AgentOf(i) == clients[calls[i].client].agent

\* the handles of an Agent that are bound to a request
HandlesBound(agent) ==
    Cardinality({i \in 1..Len(calls) :
                    calls[i].state \in BoundStates /\ AgentOf(i) = agent})

ResolveKeepsState(call, outcome) == [call EXCEPT !.resolved = @ + 1]

\* resolve the completion sink and release the handle
Resolve(call, outcome) ==
    [call EXCEPT !.state = outcome, !.resolved = @ + 1]

\* step 1: bind a queued request to an idle handle, oldest first
AgentBind(i) ==
    /\ calls[i].state = "Queued"
    /\ \A j \in 1..(i - 1) : ~(calls[j].state = "Queued" /\ AgentOf(j) = AgentOf(i))
    /\ HandlesBound(AgentOf(i)) < MaxHandles
    /\ calls' = [calls EXCEPT ![i].state = "Bound"]
    /\ UNCHANGED <<builder, clients, agents, lastBuild>>

\* step 3: connect, then transfer
AgentAdvance(i) ==
    /\ calls[i].state \in {"Bound", "Connecting"}
    /\ calls' = [calls EXCEPT ![i].state =
                    IF @ = "Bound" THEN "Connecting" ELSE "Transferring"]
    /\ UNCHANGED <<builder, clients, agents, lastBuild>>

\* step 4: the transfer completes
AgentComplete(i) ==
    /\ calls[i].state = "Transferring"
    /\ calls' = [calls EXCEPT ![i] = Resolve(@, "Completed")]
    /\ UNCHANGED <<builder, clients, agents, lastBuild>>

\* step 4: the transport reports an error
AgentFail(i) ==
    /\ calls[i].state \in {"Connecting", "Transferring"}
    /\ calls' = [calls EXCEPT ![i] = Resolve(@, "Failed")]
    /\ UNCHANGED <<builder, clients, agents, lastBuild>>

\* step 5: the request's timeout expires
AgentTimeout(i) ==
    /\ calls[i].state \in {"Connecting", "Transferring"}
    /\ Unwrap(calls[i].options).timeout # UnsetTimeout
    /\ calls' = [calls EXCEPT ![i] = Resolve(@, "TimedOut")]
    /\ UNCHANGED <<builder, clients, agents, lastBuild>>

\* the Agent finds the completion sink closed: the future was dropped
AgentCancel(i) ==
    /\ calls[i].state \in BoundStates \cup {"Queued"}
    /\ calls[i].future = "dropped"
    /\ calls' = [calls EXCEPT ![i] = Resolve(@, "Cancelled")]
    /\ UNCHANGED <<builder, clients, agents, lastBuild>>

(***************************************************************************)
(* The future send_async_impl returns                                      *)
(***************************************************************************)
\* response.extensions_mut().insert(uri)
AttachUri(response, uri) == [response EXCEPT !.uri = Some(uri)]

ResponseFilterOrderReversed(middleware) == Reverse(middleware)

\* for middleware in middleware.iter()
ResponseFilterOrder(middleware) == middleware

RECURSIVE ApplyResponseFilters(_, _)
\* response = middleware.filter_response(response), in the order given
ApplyResponseFilters(response, order) ==
    IF order = <<>>
    THEN response
    ELSE ApplyResponseFilters(filter_response(Head(order), response), Tail(order))

\* the closure given to .map: it runs on a Response only
MapResponse(call, response) ==
    ApplyResponseFilters(AttachUri(response, Unwrap(call.uri)),
                         ResponseFilterOrder(clients[call.client].middleware))

\* the Response the Agent's completion carries
TransportResponse == [status |-> "ok", uri |-> None, log |-> <<>>]

\* the future is polled (by block_on, or by the caller's executor)
Poll(i) ==
    /\ calls[i].future = "pending"
    /\ \/ /\ ~calls[i].submitted
          /\ calls' = [calls EXCEPT ![i].future = "ready",
                                    ![i].polled = TRUE,
                                    ![i].result = "Error",
                                    ![i].results = @ + 1]
       \/ /\ calls[i].state = "Completed"
          /\ calls' = [calls EXCEPT ![i].future = "ready",
                                    ![i].polled = TRUE,
                                    ![i].result = "Response",
                                    ![i].results = @ + 1,
                                    ![i].response =
                                        MapResponse(calls[i], TransportResponse)]
       \/ /\ calls[i].state \in {"Failed", "TimedOut"}
          /\ calls' = [calls EXCEPT ![i].future = "ready",
                                    ![i].polled = TRUE,
                                    ![i].result = "Error",
                                    ![i].results = @ + 1]
       \/ /\ calls[i].submitted
          /\ calls[i].state \notin TerminalStates
          /\ ~calls[i].polled
          /\ calls' = [calls EXCEPT ![i].polled = TRUE]
    /\ UNCHANGED <<builder, clients, agents, lastBuild>>

\* the caller drops the future of send_async before it is ready
Drop(i) ==
    /\ calls[i].kind = "send_async"
    /\ calls[i].future = "pending"
    /\ calls' = [calls EXCEPT ![i].future = "dropped"]
    /\ UNCHANGED <<builder, clients, agents, lastBuild>>

AgentStep(i) ==
    \/ AgentBind(i)
    \/ AgentAdvance(i)
    \/ AgentComplete(i)
    \/ AgentFail(i)
    \/ AgentTimeout(i)
    \/ AgentCancel(i)

(***************************************************************************)
(* The pipeline specification: one Client, any the builder can build      *)
(***************************************************************************)
BuildableClients ==
    {BuildClient([default_options |-> o, middleware |-> m], 1) :
        o \in ClientOptionChoices, m \in MiddlewareLists}

Init ==
    /\ builder = ClientBuilderNew
    /\ clients \in {<<cl>> : cl \in BuildableClients}
    /\ agents = 1
    /\ lastBuild = NoBuild
    /\ calls = <<>>

\* request::create fails or not; begin_execute, when it is called, fails or not
Outcomes == {<<TRUE, TRUE>>, <<FALSE, TRUE>>, <<TRUE, FALSE>>}

Next ==
    \/ \E uri \in {GoodUri, BadUri} :
          Len(calls) < MaxSends /\ Get(1, uri, TRUE, TRUE)
    \/ \E request \in Requests, o \in Outcomes :
          Len(calls) < MaxSends /\ Send(1, request, o[1], o[2])
    \/ \E request \in AsyncRequests :
          Len(calls) < MaxSends /\ SendAsync(1, request, TRUE, TRUE)
    \/ \E i \in 1..Len(calls) : AgentStep(i)
    \/ \E i \in 1..Len(calls) : Poll(i)
    \/ \E i \in 1..Len(calls) : Drop(i)

Spec == Init /\ [][Next]_vars

(***************************************************************************)
(* The agent specification: one Client, concurrent calls of send_async     *)
(***************************************************************************)
AgentClient ==
    BuildClient([default_options |-> [timeout |-> "60s", redirect_policy |-> "Limit"],
                 middleware |-> <<>>], 1)

InitAgent ==
    /\ builder = ClientBuilderNew
    /\ clients = <<AgentClient>>
    /\ agents = 1
    /\ lastBuild = NoBuild
    /\ calls = <<>>

NextAgent ==
    \/ \E accepted \in BOOLEAN :
          /\ Len(calls) < MaxCalls
          /\ SendAsync(1, NewRequest(GoodUri, None, NoHeader), TRUE, accepted)
    \/ \E i \in 1..Len(calls) : AgentStep(i)
    \/ \E i \in 1..Len(calls) : Poll(i)
    \/ \E i \in 1..Len(calls) : Drop(i)

\* the Agent's worker loops for as long as its Client lives: it gets to every
\* queued request it has a handle for, and to every closed completion sink
AgentFairness ==
    \A i \in 1..MaxCalls :
        /\ WF_vars(i <= Len(calls) /\ AgentBind(i))
        /\ WF_vars(i <= Len(calls) /\ AgentCancel(i))

SpecAgent == InitAgent /\ [][NextAgent]_vars /\ AgentFairness
(***************************************************************************)
(* Claims                                                                  *)
(***************************************************************************)
Calls == 1..Len(calls)

ClientOf(i) == clients[calls[i].client]

\* the call went through the request pipeline of send_async_impl
Piped(i) == calls[i].options # None

\* C1: the Options handed to request creation are the instance found in the
\* request's extensions after the request filters, when there is one, and the
\* Client's default otherwise; an attached instance is never replaced by the
\* Client's default.
C1_OptionsPrecedence ==
    \A i \in Calls : Piped(i) =>
        /\ calls[i].filtered.options # None =>
              calls[i].options = calls[i].filtered.options
        /\ calls[i].filtered.options = None =>
              calls[i].options = Some(ClientOf(i).default_options)
        /\ (ClientOf(i).middleware = <<>> /\ calls[i].request.options # None) =>
              calls[i].options = calls[i].request.options

C1_Witness ==
    \E i \in Calls :
        /\ ClientOf(i).middleware = <<>>
        /\ calls[i].request.options # None
        /\ ClientOf(i).default_options # OptionsDefault
        /\ calls[i].options = calls[i].request.options

\* the request carries an instance whose timeout is unset, and the Client's
\* default sets one
UnsetOverDefault(i) ==
    /\ Piped(i)
    /\ calls[i].filtered.options # None
    /\ Unwrap(calls[i].filtered.options).timeout = UnsetTimeout
    /\ ClientOf(i).default_options.timeout # UnsetTimeout

\* C2 as claimed: a field the attached Options leave unset takes the Client's
\* default value for that field.
C2_FieldFallback ==
    \A i \in Calls : UnsetOverDefault(i) =>
        Unwrap(calls[i].options).timeout = ClientOf(i).default_options.timeout

\* C2 as amended: the attached Options are used whole; a field they leave
\* unset stays unset in the Options handed to request creation, whatever the
\* Client's default sets for it.
C2_WholeInstance ==
    \A i \in Calls : UnsetOverDefault(i) =>
        /\ Unwrap(calls[i].options).timeout = UnsetTimeout
        /\ \A f \in DOMAIN OptionsDefault :
              Unwrap(calls[i].options)[f] = Unwrap(calls[i].filtered.options)[f]

C2_Witness ==
    \E i \in Calls :
        /\ UnsetOverDefault(i)
        /\ Unwrap(calls[i].options).redirect_policy
              # ClientOf(i).default_options.redirect_policy

\* C3 as claimed: the request filters run in registration order, the first
\* registered middleware first, each exactly once.
C3_FirstRegisteredFirst ==
    \A i \in Calls : Piped(i) =>
        /\ Len(calls[i].filtered.log) = Len(ClientOf(i).middleware)
        /\ \A k \in 1..Len(calls[i].filtered.log) :
              calls[i].filtered.log[k] = ClientOf(i).middleware[k]

\* C3 as amended: the request filters run in reverse registration order, the
\* last registered middleware first, each exactly once.
C3_LastRegisteredFirst ==
    \A i \in Calls : Piped(i) =>
        LET n == Len(ClientOf(i).middleware)
        IN /\ Len(calls[i].filtered.log) = n
           /\ \A k \in 1..n :
                 calls[i].filtered.log[k] = ClientOf(i).middleware[n + 1 - k]

C3_Witness ==
    \E i \in Calls :
        /\ Piped(i)
        /\ ClientOf(i).middleware = <<1, 2>>
        /\ calls[i].filtered.log = <<2, 1>>

\* C4: on a successful send the response filters run in the exact reverse of
\* the order the request filters ran in for that request, each middleware's
\* filter_response exactly once.
C4_ResponseReversesRequest ==
    \A i \in Calls : calls[i].result = "Response" =>
        LET n == Len(calls[i].filtered.log)
        IN /\ Len(calls[i].response.log) = n
           /\ n = Len(ClientOf(i).middleware)
           /\ \A k \in 1..n :
                 calls[i].response.log[k].mw = calls[i].filtered.log[n + 1 - k]

C4_Witness ==
    \E i \in Calls :
        /\ calls[i].result = "Response"
        /\ Len(calls[i].response.log) = 2
        /\ calls[i].response.log[1].mw # calls[i].response.log[2].mw

\* C5: on a successful send the URI in the Response's extensions is the URI of
\* the request as the caller passed it, whatever the request filters made of
\* the request's URI, and every response filter, the first included, finds it
\* attached.
C5_OriginalUriAttached ==
    \A i \in Calls : calls[i].result = "Response" =>
        /\ calls[i].response.uri = Some(calls[i].request.uri)
        /\ \A k \in 1..Len(calls[i].response.log) :
              calls[i].response.log[k].uri = Some(calls[i].request.uri)

C5_Witness ==
    \E i \in Calls :
        /\ calls[i].result = "Response"
        /\ calls[i].filtered.uri # calls[i].request.uri
        /\ Len(calls[i].response.log) > 0
        /\ calls[i].response.log[1].uri = Some(calls[i].request.uri)

Dropped(i) ==
    i <= Len(calls) /\ calls[i].submitted /\ calls[i].future = "dropped"

\* the request of call i holds no handle and waits for none
Released(i) == i <= Len(calls) /\ calls[i].state \in TerminalStates

\* call j waits for a handle, and every earlier request of its Agent that is
\* not over had its future dropped
WaitsBehindDropped(j) ==
    /\ j <= Len(calls)
    /\ calls[j].state = "Queued"
    /\ \A i \in 1..(j - 1) :
          (AgentOf(i) = AgentOf(j) /\ calls[i].submitted
              /\ calls[i].state \notin TerminalStates)
          => calls[i].future = "dropped"

Proceeds(j) == j <= Len(calls) /\ calls[j].state # "Queued"

\* C7: a request is with the Agent as soon as send_async returns, polled or
\* not; a request whose future is dropped gives its handle back, and a request
\* waiting behind dropped ones gets a handle, neither waiting for a transfer to
\* complete or time out.
C7_SubmittedEagerlyReleasedOnDrop ==
    /\ [](\A i \in Calls :
            (calls[i].created /\ calls[i].accepted)
            => (calls[i].submitted /\ calls[i].state # "NotSubmitted"))
    /\ \A i \in 1..MaxCalls : Dropped(i) ~> Released(i)
    /\ \A j \in 1..MaxCalls : WaitsBehindDropped(j) ~> Proceeds(j)

C7_Witness ==
    /\ Len(calls) >= 2
    /\ calls[1].client = calls[2].client
    /\ calls[1].future = "dropped"
    /\ ~calls[1].polled
    /\ calls[1].state = "Cancelled"
    /\ ~calls[2].polled
    /\ calls[2].state \in BoundStates

\* C8: every successful build creates one new Agent for the Client it returns,
\* no two Clients share an Agent, and a build whose Agent creation fails
\* returns an error and no Client.
C8_IndependentAgents ==
    /\ \A i, j \in 1..Len(clients) : i # j => clients[i].agent # clients[j].agent
    /\ agents = Len(clients)
    /\ lastBuild.result = "ok" =>
          /\ Len(clients) = lastBuild.count + 1
          /\ clients[Len(clients)].agent = agents
    /\ lastBuild.result = "err" => Len(clients) = lastBuild.count

C8_Witness ==
    /\ Len(clients) = 2
    /\ clients[1].agent # clients[2].agent
    /\ lastBuild.result = "err"
    /\ lastBuild.count = 2

\* C9: a verb method given a malformed URI returns an error, runs no request
\* filter and submits nothing; a request whose creation fails is not
\* submitted; a request that was not submitted never reaches the Agent; and no
\* response filter runs on an error outcome.
C9_ErrorsStopThePipeline ==
    \A i \in Calls :
        /\ ~WellFormed(calls[i].request.uri) =>
              /\ calls[i].result = "Error"
              /\ calls[i].filtered.log = <<>>
              /\ ~calls[i].submitted
        /\ ~calls[i].created => ~calls[i].submitted
        /\ ~calls[i].submitted =>
              /\ calls[i].state = "NotSubmitted"
              /\ calls[i].resolved = 0
              /\ calls[i].result # "Response"
        /\ calls[i].result # "Response" => calls[i].response = NoResponse
        /\ calls[i].future = "ready" => calls[i].result \in {"Response", "Error"}

C9_Witness ==
    \E i \in Calls :
        /\ ~calls[i].created
        /\ calls[i].accepted
        /\ ClientOf(i).middleware # <<>>
        /\ calls[i].result = "Error"

\* C10: a successful build leaves the builder with no middleware and with its
\* default options as they were, and the Client it returns has the builder's
\* middleware in registration order and its default options; so a second build
\* returns a Client with the same default options and no middleware.
C10_BuildDrainsMiddleware ==
    (lastBuild.result = "ok" /\ lastBuild.via = "builder") =>
        /\ builder.middleware = <<>>
        /\ builder.default_options = lastBuild.before.default_options
        /\ clients[Len(clients)].middleware = lastBuild.before.middleware
        /\ clients[Len(clients)].default_options = lastBuild.before.default_options

C10_Witness ==
    /\ lastBuild.result = "ok"
    /\ lastBuild.via = "builder"
    /\ lastBuild.before.middleware = <<>>
    /\ Len(clients) = 2
    /\ clients[1].middleware = <<1, 2>>
    /\ clients[2].middleware = <<>>
    /\ clients[2].default_options = clients[1].default_options
    /\ clients[2].default_options # OptionsDefault

====
